---- MODULE Spec2Model ----
(***************************************************************************)
(* The /query pipeline of app.py: query_documents awaits search_documents  *)
(* (one POST to the search service), then generate_answer (one POST to the *)
(* generation service), and maps every exception to an HTTP 500.           *)
(*                                                                         *)
(* Python dicts are functions whose DOMAIN is the set of keys present.     *)
(* Text that the code only passes along is an atom (a TLA+ string); text   *)
(* the code builds (the context block, str(e), the error detail) is a      *)
(* sequence of tokens, so that joining and formatting are computed.        *)
(***************************************************************************)
EXTENDS Integers, Sequences, FiniteSets, TLC

(***************************************************************************)
(* State: one task per request id; every variable is a function of the     *)
(* request id and holds that task's locals, its calls and its response.    *)
(***************************************************************************)
VARIABLES
    pc,              \* "idle", "await_search", "await_gen" or "done"
    inbound,         \* the JSON body posted to /query
    request,         \* the QueryRequest parsed from it
    searchPost,      \* json= of the POST to the search service
    searchCalls,     \* POSTs issued to the search service
    searchResp,      \* what that POST came back with
    search_results,  \* query_documents' local
    context_chunks,  \* generate_answer's locals
    sources,
    context,
    openaiPost,      \* json= of the POST to the generation service
    genCalls,        \* POSTs issued to the generation service
    genResp,         \* what that POST came back with
    response,        \* the HTTP response of POST /query
    log              \* logger.error lines of the task

vars == <<pc, inbound, request, searchPost, searchCalls, searchResp, search_results,
          context_chunks, sources, context, openaiPost, genCalls, genResp, response, log>>

(***************************************************************************)
(* Bounds of the model.                                                    *)
(***************************************************************************)
MaxRecords == 2      \* longest `value` array a search response carries
MaxTopK == 2         \* largest explicit top_k of an inbound body
NumRequests == 2     \* requests in flight in the concurrent specification

(***************************************************************************)
(* Program constants.                                                      *)
(***************************************************************************)
DefaultTopK == 3     \* QueryRequest.top_k default
HTTP_OK == 200       \* the status both stages compare against
HTTP_ERROR == 500    \* status of the handler's HTTPException
HTTP_UNPROCESSABLE == 422  \* the framework's answer to a body that fails QueryRequest

None == "None"       \* Python None / JSON null

Reqs == 1..NumRequests

(***************************************************************************)
(* Helpers for building dicts with optional keys: an option is a set with  *)
(* zero or one element.                                                    *)
(***************************************************************************)
Opt(S) == {{}} \cup {{x} : x \in S}

The(o) == CHOOSE v \in o : TRUE

Key(k, o) == IF o = {} THEN {} ELSE {k}

(***************************************************************************)
(* Inbound request bodies and the QueryRequest model.                      *)
(***************************************************************************)
Body(qo, ko, fo) ==
    [x \in Key("query", qo) \cup Key("top_k", ko) \cup Key("filter", fo) |->
        CASE x = "query" -> The(qo)
          [] x = "top_k" -> The(ko)
          [] x = "filter" -> The(fo)]

Queries == {"", "q1"}

TopKs == 0..MaxTopK

Filters == {None, "", "category eq 'faq'"}

Bodies == {Body(qo, ko, fo) : qo \in Opt(Queries), ko \in Opt(TopKs), fo \in Opt(Filters)}

\* pydantic: `query: str` is the only required field
Validates(body) == "query" \in DOMAIN body

QueryRequest(body) ==
    [query  |-> body["query"],
     top_k  |-> IF "top_k" \in DOMAIN body THEN body["top_k"] ELSE DefaultTopK,
     filter |-> IF "filter" \in DOMAIN body THEN body["filter"] ELSE None]

NoRequest == [query |-> "", top_k |-> 0, filter |-> None]

(***************************************************************************)
(* Exceptions and str(e).                                                  *)
(***************************************************************************)
Exc(type, status_code, detail) ==
    [type |-> type, status_code |-> status_code, detail |-> detail]

NoExc == Exc("none", 0, <<>>)

HTTPException(status_code, detail) == Exc("HTTPException", status_code, detail)

DigitChars == <<"0", "1", "2", "3", "4", "5", "6", "7", "8", "9">>

RECURSIVE Digits(_)
\* decimal rendering of a natural number, one token per digit
Digits(n) == IF n < 10 THEN <<DigitChars[n + 1]>>
             ELSE Digits(n \div 10) \o <<DigitChars[(n % 10) + 1]>>

\* str(e): the framework's HTTPException renders "{status_code}: {detail}" (its
\* __str__), the other exceptions their message
Str(e) == IF e.type = "HTTPException"
          THEN Digits(e.status_code) \o <<": ">> \o e.detail
          ELSE e.detail

(***************************************************************************)
(* What an outbound POST can come back with.                               *)
(***************************************************************************)
Upstream(kind, status_code, text, is_json, json) ==
    [kind |-> kind, status_code |-> status_code, text |-> text,
     is_json |-> is_json, json |-> json]

NoResponse == Upstream("none", 0, <<>>, FALSE, <<>>)

\* httpx raises instead of returning: a timeout or a connection failure
TransportFailures ==
    {Upstream("ReadTimeout", 0, <<>>, FALSE, <<>>),
     Upstream("ConnectError", 0, <<"All connection attempts failed">>, FALSE, <<>>)}

ErrorStatuses == {404, 503}

ErrorResponses ==
    {Upstream("response", s, <<"upstream error body">>, FALSE, <<>>) : s \in ErrorStatuses}

JsonOK(json) == Upstream("response", HTTP_OK, <<"json">>, TRUE, json)

NotJsonOK == Upstream("response", HTTP_OK, <<"<html>">>, FALSE, <<>>)

(***************************************************************************)
(* Results of a stage: a return value or a raised exception.               *)
(***************************************************************************)
Return(v) == [raised |-> FALSE, value |-> v, exc |-> NoExc]

Raise(e) == [raised |-> TRUE, value |-> <<>>, exc |-> e]

TransportExc(resp) == Exc(resp.kind, 0, resp.text)

(***************************************************************************)
(* search_documents                                                        *)
(***************************************************************************)
\* `if filter_param is not None:` in place of `if filter_param:`
Truthy_NotNone(s) == s # None

Truthy(s) == s # None /\ s # ""

search_body(query, top_k, filter_param) ==
    LET base == [search |-> query,
                 queryType |-> "semantic",
                 vectorQueries |-> <<[kind |-> "text", text |-> query,
                                      fields |-> "text_vector", k |-> top_k]>>,
                 top |-> top_k]
    IN IF Truthy(filter_param) THEN ("filter" :> filter_param) @@ base ELSE base

\* a non-200 status taken for "no matches"
search_documents_Swallow(resp) ==
    IF resp.kind # "response" THEN Raise(TransportExc(resp))
    ELSE IF resp.status_code # HTTP_OK THEN Return(<<>>)
    ELSE IF ~resp.is_json
         THEN Raise(Exc("JSONDecodeError", 0, <<"Expecting value: line 1 column 1 (char 0)">>))
    ELSE Return(IF "value" \in DOMAIN resp.json THEN resp.json["value"] ELSE <<>>)

\* an empty result short-circuited into a 404
search_documents_RaiseOnEmpty(resp) ==
    IF resp.kind # "response" THEN Raise(TransportExc(resp))
    ELSE IF resp.status_code # HTTP_OK
         THEN Raise(HTTPException(resp.status_code, resp.text))
    ELSE IF ~resp.is_json
         THEN Raise(Exc("JSONDecodeError", 0, <<"Expecting value: line 1 column 1 (char 0)">>))
    ELSE IF "value" \notin DOMAIN resp.json \/ resp.json["value"] = <<>>
         THEN Raise(HTTPException(404, <<"No documents found">>))
    ELSE Return(resp.json["value"])

\* search_documents from the point its POST completes
search_documents(resp) ==
    IF resp.kind # "response" THEN Raise(TransportExc(resp))
    ELSE IF resp.status_code # HTTP_OK
         THEN Raise(HTTPException(resp.status_code, resp.text))
    ELSE IF ~resp.is_json
         THEN Raise(Exc("JSONDecodeError", 0, <<"Expecting value: line 1 column 1 (char 0)">>))
    ELSE Return(IF "value" \in DOMAIN resp.json THEN resp.json["value"] ELSE <<>>)

(***************************************************************************)
(* generate_answer                                                         *)
(***************************************************************************)
\* result.get(key) without its default
Get_NoDefault(result, key, default) == IF key \in DOMAIN result THEN result[key] ELSE None

\* result.get(key, default)
Get(result, key, default) == IF key \in DOMAIN result THEN result[key] ELSE default

Source(result) ==
    [title    |-> Get(result, "title", "Unknown Document"),
     url      |-> Get(result, "url", ""),
     chunk_id |-> Get(result, "id", ""),
     score    |-> Get(result, "@search.score", 0)]

RECURSIVE ExtractLoop_SkipChunkless(_, _, _, _)
\* the Source appended inside `if "chunk" in result:`
ExtractLoop_SkipChunkless(results, i, chunks, srcs) ==
    IF i > Len(results) THEN [context_chunks |-> chunks, sources |-> srcs]
    ELSE LET result == results[i]
         IN IF "chunk" \in DOMAIN result
            THEN ExtractLoop_SkipChunkless(results, i + 1,
                     Append(chunks, result["chunk"]), Append(srcs, Source(result)))
            ELSE ExtractLoop_SkipChunkless(results, i + 1, chunks, srcs)

RECURSIVE ExtractLoop_Prepend(_, _, _, _)
\* sources.insert(0, source) in place of sources.append(source)
ExtractLoop_Prepend(results, i, chunks, srcs) ==
    IF i > Len(results) THEN [context_chunks |-> chunks, sources |-> srcs]
    ELSE LET result == results[i]
         IN ExtractLoop_Prepend(results, i + 1,
                IF "chunk" \in DOMAIN result
                    THEN Append(chunks, result["chunk"]) ELSE chunks,
                <<Source(result)>> \o srcs)

RECURSIVE SourcesOfAll(_)
\* the sources lists of requests 1..n, one after the other
SourcesOfAll(n) == IF n = 0 THEN <<>> ELSE SourcesOfAll(n - 1) \o sources[n]

RECURSIVE ExtractLoop_SharedList(_, _, _, _)
\* `sources` as a module-level list that every request appends to
ExtractLoop_SharedList(results, i, chunks, srcs) ==
    IF i > Len(results)
    THEN [context_chunks |-> chunks, sources |-> SourcesOfAll(NumRequests) \o srcs]
    ELSE LET result == results[i]
         IN ExtractLoop_SharedList(results, i + 1,
                IF "chunk" \in DOMAIN result
                    THEN Append(chunks, result["chunk"]) ELSE chunks,
                Append(srcs, Source(result)))

RECURSIVE ExtractLoop(_, _, _, _)
\* the `for result in search_results` loop from index i on, given the two lists so far
ExtractLoop(results, i, chunks, srcs) ==
    IF i > Len(results) THEN [context_chunks |-> chunks, sources |-> srcs]
    ELSE LET result == results[i]
         IN ExtractLoop(results, i + 1,
                IF "chunk" \in DOMAIN result
                    THEN Append(chunks, result["chunk"]) ELSE chunks,
                Append(srcs, Source(result)))

RECURSIVE Join(_, _)
\* sep.join(items)
Join(sep, items) ==
    IF Len(items) = 0 THEN <<>>
    ELSE IF Len(items) = 1 THEN <<items[1]>>
    ELSE <<items[1], sep>> \o Join(sep, Tail(items))

SystemPrompt == "You are a helpful assistant that provides information based on the context provided."

openai_body(query, ctx) ==
    [messages |-> <<[role |-> "system", content |-> <<SystemPrompt>>],
                    [role |-> "user",
                     content |-> <<"Context:">> \o ctx \o <<"Question: ", query, "Instructions:">>]>>,
     model |-> "gpt-4o",
     temperature |-> "0.7",
     max_tokens |-> 800]

KeyError(key) == Exc("KeyError", 0, <<"'", key, "'">>)

\* generate_answer from the point its POST completes
generate_answer(resp, srcs) ==
    IF resp.kind # "response" THEN Raise(TransportExc(resp))
    ELSE IF resp.status_code # HTTP_OK
         THEN Raise(HTTPException(resp.status_code, resp.text))
    ELSE IF ~resp.is_json
         THEN Raise(Exc("JSONDecodeError", 0, <<"Expecting value: line 1 column 1 (char 0)">>))
    ELSE IF "choices" \notin DOMAIN resp.json THEN Raise(KeyError("choices"))
    ELSE IF Len(resp.json["choices"]) = 0
         THEN Raise(Exc("IndexError", 0, <<"list index out of range">>))
    ELSE IF "message" \notin DOMAIN resp.json["choices"][1] THEN Raise(KeyError("message"))
    ELSE IF "content" \notin DOMAIN resp.json["choices"][1]["message"]
         THEN Raise(KeyError("content"))
    ELSE Return([answer |-> resp.json["choices"][1]["message"]["content"],
                 sources |-> srcs])

(***************************************************************************)
(* HTTP responses of POST /query                                           *)
(***************************************************************************)
HttpResponse(status_code, body) == [status_code |-> status_code, body |-> body]

NoHttpResponse == HttpResponse(0, <<>>)

\* pydantic: `answer: str` rejects None
ValidAnswer(answer) == answer # None

ChatResponse(answer, srcs) ==
    HttpResponse(HTTP_OK, [answer |-> answer, sources |-> srcs])

\* `except HTTPException: raise` ahead of the catch-all
ErrorResponse_Propagate(e) ==
    HttpResponse(IF e.type = "HTTPException" THEN e.status_code ELSE HTTP_ERROR,
                 [detail |-> <<"Error processing query: ">> \o Str(e)])

\* the handler's `except Exception as e`
ErrorResponse(e) ==
    HttpResponse(HTTP_ERROR, [detail |-> <<"Error processing query: ">> \o Str(e)])

ValidationResponse ==
    HttpResponse(HTTP_UNPROCESSABLE, [detail |-> <<"Field required">>])

LogError(prefix, e) == <<prefix>> \o Str(e)

(***************************************************************************)
(* Retrieved records and upstream responses the model draws from.          *)
(***************************************************************************)
Record(co, to, uo, io, so) ==
    [x \in Key("chunk", co) \cup Key("title", to) \cup Key("url", uo)
           \cup Key("id", io) \cup Key("@search.score", so) |->
        CASE x = "chunk" -> The(co)
          [] x = "title" -> The(to)
          [] x = "url" -> The(uo)
          [] x = "id" -> The(io)
          [] x = "@search.score" -> The(so)]

ChunkOnlyRecord == Record({"chunk two"}, {}, {}, {}, {})

\* every subset of the five consumed fields, and a second chunk text to tell order apart
AllRecords ==
    {Record(co, to, uo, io, so) :
        co \in Opt({"chunk one"}), to \in Opt({"Refund policy"}),
        uo \in Opt({"https://docs/refund"}), io \in Opt({"doc1-3"}), so \in Opt({7})}
    \cup {ChunkOnlyRecord}

FullRecord == Record({"chunk one"}, {"Refund policy"}, {"https://docs/refund"}, {"doc1-3"}, {7})

NoChunkRecord == Record({}, {"Refund policy"}, {}, {"doc1-3"}, {})

EmptyRecord == Record({}, {}, {}, {}, {})

SomeRecords == {FullRecord, ChunkOnlyRecord, NoChunkRecord, EmptyRecord}

SeqsUpTo(S, n) == UNION {[1..k -> S] : k \in 0..n}

SearchResponses(values) ==
    TransportFailures \cup ErrorResponses
        \cup {NotJsonOK, JsonOK(<<>>)}
        \cup {JsonOK([value |-> v]) : v \in values}

Answers == {"answer A", "answer B"}

Completion(a) == JsonOK([choices |-> <<[message |-> [role |-> "assistant", content |-> a]]>>])

GenerationResponses(answers) ==
    TransportFailures \cup ErrorResponses
        \cup {NotJsonOK, JsonOK(<<>>), JsonOK([choices |-> <<>>]),
              JsonOK([choices |-> <<[finish_reason |-> "stop"]>>]),
              JsonOK([choices |-> <<[message |-> [role |-> "assistant"]]>>])}
        \cup {Completion(a) : a \in answers \cup {None}}

Init ==
    /\ pc = [r \in Reqs |-> "idle"]
    /\ inbound = [r \in Reqs |-> <<>>]
    /\ request = [r \in Reqs |-> NoRequest]
    /\ searchPost = [r \in Reqs |-> <<>>]
    /\ searchCalls = [r \in Reqs |-> 0]
    /\ searchResp = [r \in Reqs |-> NoResponse]
    /\ search_results = [r \in Reqs |-> <<>>]
    /\ context_chunks = [r \in Reqs |-> <<>>]
    /\ sources = [r \in Reqs |-> <<>>]
    /\ context = [r \in Reqs |-> <<>>]
    /\ openaiPost = [r \in Reqs |-> <<>>]
    /\ genCalls = [r \in Reqs |-> 0]
    /\ genResp = [r \in Reqs |-> NoResponse]
    /\ response = [r \in Reqs |-> NoHttpResponse]
    /\ log = [r \in Reqs |-> <<>>]

(***************************************************************************)
(* POST /query arrives: the framework parses the body into QueryRequest;   *)
(* query_documents runs search_documents up to its `await client.post`.    *)
(***************************************************************************)
PostQuery(r, body) ==
    /\ pc[r] = "idle"
    /\ inbound' = [inbound EXCEPT ![r] = body]
    /\ IF ~Validates(body)
       THEN /\ pc' = [pc EXCEPT ![r] = "done"]
            /\ response' = [response EXCEPT ![r] = ValidationResponse]
            /\ UNCHANGED <<request, searchPost, searchCalls>>
       ELSE LET req == QueryRequest(body)
            IN /\ request' = [request EXCEPT ![r] = req]
               /\ searchPost' = [searchPost EXCEPT
                                    ![r] = search_body(req.query, req.top_k, req.filter)]
               /\ searchCalls' = [searchCalls EXCEPT ![r] = @ + 1]
               /\ pc' = [pc EXCEPT ![r] = "await_search"]
               /\ UNCHANGED response
    /\ UNCHANGED <<searchResp, search_results, context_chunks, sources, context,
                   openaiPost, genCalls, genResp, log>>

(***************************************************************************)
(* The search POST completes: search_documents returns or raises; on a     *)
(* return generate_answer runs up to its own `await client.post`.          *)
(***************************************************************************)
\* search_documents raised: both `except` blocks log, the handler answers 500
SearchRaises(r, resp, e) ==
    /\ log' = [log EXCEPT ![r] =
          @ \o (IF resp.kind = "response" /\ resp.status_code # HTTP_OK
                THEN <<<<"Search API error: ">> \o Digits(resp.status_code)
                           \o <<" ">> \o resp.text>>
                ELSE <<>>)
            \o <<LogError("Error searching documents: ", e),
                 LogError("Error processing query: ", e)>>]
    /\ response' = [response EXCEPT ![r] = ErrorResponse(e)]
    /\ pc' = [pc EXCEPT ![r] = "done"]
    /\ UNCHANGED <<search_results, context_chunks, sources, context, openaiPost, genCalls>>

\* search_documents returned: generate_answer builds its lists, the context
\* and the prompt, and issues its POST
StartGeneration(r, results) ==
    LET pass == ExtractLoop(results, 1, <<>>, <<>>)
        ctx == Join("\n\n", pass.context_chunks)
    IN /\ search_results' = [search_results EXCEPT ![r] = results]
       /\ context_chunks' = [context_chunks EXCEPT ![r] = pass.context_chunks]
       /\ sources' = [sources EXCEPT ![r] = pass.sources]
       /\ context' = [context EXCEPT ![r] = ctx]
       /\ openaiPost' = [openaiPost EXCEPT ![r] = openai_body(request[r].query, ctx)]
       /\ genCalls' = [genCalls EXCEPT ![r] = @ + 1]
       /\ pc' = [pc EXCEPT ![r] = "await_gen"]
       /\ UNCHANGED <<response, log>>

\* a retry loop around the search POST: a failed call is issued again
SearchReturns_Retry(r, resp) ==
    /\ pc[r] = "await_search"
    /\ searchResp' = [searchResp EXCEPT ![r] = resp]
    /\ LET out == search_documents(resp)
       IN IF out.raised
          THEN IF searchCalls[r] < 2
               THEN /\ searchCalls' = [searchCalls EXCEPT ![r] = @ + 1]
                    /\ UNCHANGED <<pc, response, log, search_results, context_chunks,
                                   sources, context, openaiPost, genCalls>>
               ELSE SearchRaises(r, resp, out.exc) /\ UNCHANGED searchCalls
          ELSE StartGeneration(r, out.value) /\ UNCHANGED searchCalls
    /\ UNCHANGED <<inbound, request, searchPost, genResp>>

SearchReturns(r, resp) ==
    /\ pc[r] = "await_search"
    /\ searchResp' = [searchResp EXCEPT ![r] = resp]
    /\ LET out == search_documents(resp)
       IN IF out.raised
          THEN SearchRaises(r, resp, out.exc)
          ELSE StartGeneration(r, out.value)
    /\ UNCHANGED <<inbound, request, searchPost, searchCalls, genResp>>

(***************************************************************************)
(* The generation POST completes: generate_answer returns or raises, and   *)
(* query_documents builds the ChatResponse or raises its HTTPException.    *)
(***************************************************************************)
GenerationReturns(r, resp) ==
    /\ pc[r] = "await_gen"
    /\ genResp' = [genResp EXCEPT ![r] = resp]
    /\ LET out == generate_answer(resp, sources[r])
       IN IF out.raised
          THEN /\ log' = [log EXCEPT ![r] =
                     @ \o (IF resp.kind = "response" /\ resp.status_code # HTTP_OK
                           THEN <<<<"OpenAI API error: ">> \o Digits(resp.status_code)
                                      \o <<" ">> \o resp.text>>
                           ELSE <<>>)
                       \o <<LogError("Error generating answer: ", out.exc),
                            LogError("Error processing query: ", out.exc)>>]
               /\ response' = [response EXCEPT ![r] = ErrorResponse(out.exc)]
          ELSE IF ~ValidAnswer(out.value.answer)
          THEN LET e == Exc("ValidationError", 0,
                            <<"1 validation error for ChatResponse">>)
               IN /\ log' = [log EXCEPT
                               ![r] = Append(@, LogError("Error processing query: ", e))]
                  /\ response' = [response EXCEPT ![r] = ErrorResponse(e)]
          ELSE /\ response' = [response EXCEPT
                                  ![r] = ChatResponse(out.value.answer, out.value.sources)]
               /\ UNCHANGED log
    /\ pc' = [pc EXCEPT ![r] = "done"]
    /\ UNCHANGED <<inbound, request, searchPost, searchCalls, searchResp, search_results,
                   context_chunks, sources, context, openaiPost, genCalls>>

(***************************************************************************)
(* One request, every body and every upstream response.                    *)
(***************************************************************************)
Arrives == \E body \in Bodies : PostQuery(1, body)

SearchCompletes ==
    /\ pc[1] = "await_search"
    /\ \E resp \in SearchResponses(SeqsUpTo(SomeRecords, MaxRecords)) : SearchReturns(1, resp)

GenerationCompletes ==
    /\ pc[1] = "await_gen"
    /\ \E resp \in GenerationResponses(Answers) : GenerationReturns(1, resp)

Next == Arrives \/ SearchCompletes \/ GenerationCompletes

Spec == Init /\ [][Next]_vars

\* timeout=30.0 and timeout=60.0: an awaited POST returns or raises
LiveSpec == Spec /\ WF_vars(SearchCompletes) /\ WF_vars(GenerationCompletes)

(***************************************************************************)
(* NumRequests requests handled concurrently: the event loop interleaves   *)
(* the tasks at their two awaits.                                          *)
(***************************************************************************)
ConcBodies == {Body({"q1"}, {}, {}), Body({"q1"}, {1}, {"category eq 'faq'"})}

ConcSearchResponses ==
    {Upstream("response", 503, <<"upstream error body">>, FALSE, <<>>),
     JsonOK([value |-> <<>>]),
     JsonOK([value |-> <<FullRecord>>]),
     JsonOK([value |-> <<NoChunkRecord, FullRecord>>])}

ConcGenerationResponses ==
    {Upstream("response", 503, <<"upstream error body">>, FALSE, <<>>)}
        \cup {Completion(a) : a \in Answers}

ArrivesConc == \E r \in Reqs : \E body \in ConcBodies : PostQuery(r, body)

SearchCompletesConc ==
    \E r \in Reqs : \E resp \in ConcSearchResponses : SearchReturns(r, resp)

GenerationCompletesConc ==
    \E r \in Reqs : \E resp \in ConcGenerationResponses : GenerationReturns(r, resp)

NextConc == ArrivesConc \/ SearchCompletesConc \/ GenerationCompletesConc

SpecConc == Init /\ [][NextConc]_vars

(***************************************************************************)
(* generate_answer's pass over every shape of record: the request          *)
(* {"query": "q1"} has been posted, the search service answers 200 with    *)
(* any `value` array over AllRecords and the generation service completes. *)
(***************************************************************************)
InitRecords ==
    LET req == QueryRequest(Body({"q1"}, {}, {}))
    IN /\ pc = [r \in Reqs |-> IF r = 1 THEN "await_search" ELSE "idle"]
       /\ inbound = [r \in Reqs |-> IF r = 1 THEN Body({"q1"}, {}, {}) ELSE <<>>]
       /\ request = [r \in Reqs |-> IF r = 1 THEN req ELSE NoRequest]
       /\ searchPost = [r \in Reqs |->
              IF r = 1 THEN search_body(req.query, req.top_k, req.filter) ELSE <<>>]
       /\ searchCalls = [r \in Reqs |-> IF r = 1 THEN 1 ELSE 0]
       /\ searchResp = [r \in Reqs |-> NoResponse]
       /\ search_results = [r \in Reqs |-> <<>>]
       /\ context_chunks = [r \in Reqs |-> <<>>]
       /\ sources = [r \in Reqs |-> <<>>]
       /\ context = [r \in Reqs |-> <<>>]
       /\ openaiPost = [r \in Reqs |-> <<>>]
       /\ genCalls = [r \in Reqs |-> 0]
       /\ genResp = [r \in Reqs |-> NoResponse]
       /\ response = [r \in Reqs |-> NoHttpResponse]
       /\ log = [r \in Reqs |-> <<>>]

SearchCompletesRecords ==
    /\ pc[1] = "await_search"
    /\ \E v \in SeqsUpTo(AllRecords, MaxRecords) : SearchReturns(1, JsonOK([value |-> v]))

GenerationCompletesRecords == GenerationReturns(1, Completion("answer A"))

NextRecords == SearchCompletesRecords \/ GenerationCompletesRecords

SpecRecords == InitRecords /\ [][NextRecords]_vars

(***************************************************************************)
(* Vocabulary of the properties.                                           *)
(***************************************************************************)
Contains(seq, sub) ==
    \E i \in 0..(Len(seq) - Len(sub)) : SubSeq(seq, i + 1, i + Len(sub)) = sub

Succeeded(r) == pc[r] = "done" /\ response[r].status_code = HTTP_OK

IsChatResponse(resp) ==
    resp.status_code = HTTP_OK /\ DOMAIN resp.body = {"answer", "sources"}

IsErrorResponse(resp) ==
    resp.status_code # HTTP_OK /\ DOMAIN resp.body = {"detail"}

\* the `value` array of a 200 search response, empty when the key is missing
ValueArray(resp) == IF "value" \in DOMAIN resp.json THEN resp.json["value"] ELSE <<>>

SearchSucceeded(resp) ==
    resp.kind = "response" /\ resp.status_code = HTTP_OK /\ resp.is_json

HasContent(json) ==
    /\ "choices" \in DOMAIN json
    /\ Len(json["choices"]) > 0
    /\ "message" \in DOMAIN json["choices"][1]
    /\ "content" \in DOMAIN json["choices"][1]["message"]
    /\ json["choices"][1]["message"]["content"] # None

(***************************************************************************)
(* C1                                                                      *)
(***************************************************************************)
\* C1 as stated: a successful ChatResponse never has more sources than the
\* request's top_k, whatever the search service returned.
C1_SourcesAtMostTopK ==
    \A r \in Reqs :
        Succeeded(r) => Len(response[r].body["sources"]) <= request[r].top_k

\* C1, amended: a successful ChatResponse has exactly as many sources as the
\* search response's `value` array has records (none when the key is missing),
\* so it stays within top_k exactly when the search service did.
C1_SourcesMatchValueArray ==
    \A r \in Reqs :
        Succeeded(r) =>
            /\ Len(response[r].body["sources"]) = Len(ValueArray(searchResp[r]))
            /\ (Len(response[r].body["sources"]) <= request[r].top_k
                  <=> Len(ValueArray(searchResp[r])) <= request[r].top_k)

C1_Witness ==
    \E r \in Reqs :
        /\ Succeeded(r)
        /\ request[r].top_k = 1
        /\ Len(ValueArray(searchResp[r])) = 2
        /\ Len(response[r].body["sources"]) = 2

(***************************************************************************)
(* C2                                                                      *)
(***************************************************************************)
\* C2: once the search service has answered with a non-200 status, the request
\* is over with an error response whose detail contains the decimal upstream
\* status, and no POST to the generation service has been or will be issued.
C2_SearchErrorSurfaces ==
    \A r \in Reqs :
        (searchResp[r].kind = "response" /\ searchResp[r].status_code # HTTP_OK) =>
            /\ pc[r] = "done"
            /\ IsErrorResponse(response[r])
            /\ Contains(response[r].body["detail"], Digits(searchResp[r].status_code))
            /\ genCalls[r] = 0
            /\ genResp[r] = NoResponse

C2_Witness ==
    \E r \in Reqs :
        /\ searchResp[r].kind = "response"
        /\ searchResp[r].status_code = 503
        /\ pc[r] = "done"
        /\ response[r].body["detail"]
             = <<"Error processing query: ", "5", "0", "3", ": ", "upstream error body">>

(***************************************************************************)
(* C3                                                                      *)
(***************************************************************************)
StageFailed(r) ==
    \/ searchResp[r].kind \in {"ReadTimeout", "ConnectError"}
    \/ searchResp[r].kind = "response" /\ searchResp[r].status_code # HTTP_OK
    \/ genResp[r].kind \in {"ReadTimeout", "ConnectError"}
    \/ genResp[r].kind = "response" /\ genResp[r].status_code # HTTP_OK
    \/ /\ genResp[r].kind = "response" /\ genResp[r].status_code = HTTP_OK
       /\ genResp[r].is_json /\ ~HasContent(genResp[r].json)

\* C3: a request whose search or generation stage failed (non-200, timeout,
\* connection failure, or a 200 generation payload without
\* choices[0].message.content) has ended with status 500 and a non-empty detail
\* and nothing else in the body; and every finished request carries either the
\* full ChatResponse (answer and sources) or an error body (detail only).
C3_UniformError ==
    \A r \in Reqs :
        /\ StageFailed(r) =>
              /\ pc[r] = "done"
              /\ response[r].status_code = HTTP_ERROR
              /\ DOMAIN response[r].body = {"detail"}
              /\ Len(response[r].body["detail"]) > 0
        /\ pc[r] = "done" =>
              /\ IsChatResponse(response[r]) \/ IsErrorResponse(response[r])
              /\ IsChatResponse(response[r]) => ~StageFailed(r)

C3_Witness ==
    \E r \in Reqs :
        /\ pc[r] = "done"
        /\ SearchSucceeded(searchResp[r])
        /\ genResp[r].kind = "response" /\ genResp[r].status_code = 404
        /\ response[r].status_code = HTTP_ERROR
        /\ Len(sources[r]) > 0

(***************************************************************************)
(* C4                                                                      *)
(***************************************************************************)
\* C4: a request for which a POST to the search service was issued has
\* top_k > 0 and a non-empty query, and a malformed body ends without any
\* outbound call.
C4_RetrieverSeesValidRequest ==
    \A r \in Reqs :
        /\ searchCalls[r] > 0 => request[r].top_k > 0 /\ request[r].query # ""
        /\ (pc[r] # "idle" /\ ~Validates(inbound[r])) =>
              searchCalls[r] = 0 /\ genCalls[r] = 0

(***************************************************************************)
(* C5                                                                      *)
(***************************************************************************)
HasChunk(result) == "chunk" \in DOMAIN result

\* C5: once generate_answer has built its lists, sources has one Source per
\* retrieved record, at the record's position, with or without a chunk; the
\* context block holds the chunks of exactly the records that have one, in
\* record order, separated by a blank line; and the returned sources are that
\* list.
C5_OneSourcePerRecord ==
    \A r \in Reqs :
        genCalls[r] > 0 =>
            LET records == ValueArray(searchResp[r])
                withChunk == SelectSeq(records, HasChunk)
                n == Len(withChunk)
            IN /\ Len(sources[r]) = Len(records)
               /\ \A k \in 1..Len(records) : sources[r][k] = Source(records[k])
               /\ Len(context[r]) = (IF n = 0 THEN 0 ELSE 2 * n - 1)
               /\ \A k \in 1..n : context[r][2 * k - 1] = withChunk[k]["chunk"]
               /\ \A k \in 1..(n - 1) : context[r][2 * k] = "\n\n"
               /\ openaiPost[r]["messages"][2]["content"]
                    = <<"Context:">> \o context[r]
                        \o <<"Question: ", request[r].query, "Instructions:">>
               /\ Succeeded(r) => response[r].body["sources"] = sources[r]

C5_Witness ==
    \E r \in Reqs :
        /\ Succeeded(r)
        /\ ValueArray(searchResp[r]) = <<NoChunkRecord, ChunkOnlyRecord>>
        /\ Len(response[r].body["sources"]) = 2
        /\ context[r] = <<"chunk two">>

(***************************************************************************)
(* C6                                                                      *)
(***************************************************************************)
\* C6: after a 200 search response with an empty `value` array or none at all,
\* exactly one POST to the generation service has been issued, with an empty
\* context block; if that POST brought a completion the response is its answer
\* with an empty sources list, and an error response only follows a failed
\* generation call.
C6_EmptyResultStillAnswers ==
    \A r \in Reqs :
        (SearchSucceeded(searchResp[r]) /\ ValueArray(searchResp[r]) = <<>>) =>
            /\ pc[r] \in {"await_gen", "done"}
            /\ genCalls[r] = 1
            /\ context[r] = <<>>
            /\ openaiPost[r]["messages"][2]["content"]
                 = <<"Context:", "Question: ", request[r].query, "Instructions:">>
            /\ pc[r] = "done" =>
                 IF genResp[r].kind = "response" /\ genResp[r].status_code = HTTP_OK
                    /\ genResp[r].is_json /\ HasContent(genResp[r].json)
                 THEN response[r] =
                        HttpResponse(HTTP_OK,
                            [answer |-> genResp[r].json["choices"][1]["message"]["content"],
                             sources |-> <<>>])
                 ELSE IsErrorResponse(response[r])

C6_Witness ==
    \E r \in Reqs :
        /\ searchResp[r] = JsonOK(<<>>)
        /\ genCalls[r] = 1
        /\ Succeeded(r)
        /\ response[r].body = [answer |-> "answer A", sources |-> <<>>]

(***************************************************************************)
(* C7                                                                      *)
(***************************************************************************)
\* C7: each returned Source carries, for title, url, chunk_id and score, the
\* record's own title, url, id and @search.score where the record has the
\* field and "Unknown Document", "", "" and 0 where it has not; and a 200
\* search response is followed by the generation call, never by an error,
\* whichever fields its records miss.
C7_DefaultsForMissingFields ==
    \A r \in Reqs :
        SearchSucceeded(searchResp[r]) =>
            LET records == ValueArray(searchResp[r])
            IN /\ genCalls[r] = 1
               /\ Len(sources[r]) = Len(records)
               /\ \A k \in 1..Len(records) :
                     LET rec == records[k]
                         src == sources[r][k]
                     IN /\ DOMAIN src = {"title", "url", "chunk_id", "score"}
                        /\ src.title = (IF "title" \in DOMAIN rec
                                        THEN rec["title"] ELSE "Unknown Document")
                        /\ src.url = (IF "url" \in DOMAIN rec THEN rec["url"] ELSE "")
                        /\ src.chunk_id = (IF "id" \in DOMAIN rec THEN rec["id"] ELSE "")
                        /\ src.score = (IF "@search.score" \in DOMAIN rec
                                        THEN rec["@search.score"] ELSE 0)
               /\ (pc[r] = "done" /\ genResp[r] = Completion("answer A")) =>
                     response[r] = ChatResponse("answer A", sources[r])

C7_Witness ==
    \E r \in Reqs :
        /\ Succeeded(r)
        /\ ValueArray(searchResp[r]) = <<EmptyRecord, Record({}, {}, {"https://docs/refund"}, {}, {7})>>
        /\ response[r].body["sources"]
             = <<[title |-> "Unknown Document", url |-> "", chunk_id |-> "", score |-> 0],
                 [title |-> "Unknown Document", url |-> "https://docs/refund",
                  chunk_id |-> "", score |-> 7]>>

(***************************************************************************)
(* C8                                                                      *)
(***************************************************************************)
\* C8: the body posted to the search service has a `filter` key exactly when
\* the inbound body's filter is present, not null and not the empty string,
\* and then carries that very string; `top` and the vector query's `k` are the
\* request's top_k (the default when the inbound body has none).
C8_FilterIffNonEmpty ==
    \A r \in Reqs :
        searchCalls[r] > 0 =>
            LET given == "filter" \in DOMAIN inbound[r]
                           /\ inbound[r]["filter"] # None /\ inbound[r]["filter"] # ""
                top_k == IF "top_k" \in DOMAIN inbound[r]
                         THEN inbound[r]["top_k"] ELSE DefaultTopK
            IN /\ ("filter" \in DOMAIN searchPost[r]) <=> given
               /\ given => searchPost[r]["filter"] = inbound[r]["filter"]
               /\ searchPost[r]["top"] = top_k
               /\ Len(searchPost[r]["vectorQueries"]) = 1
               /\ searchPost[r]["vectorQueries"][1]["k"] = top_k
               /\ searchPost[r]["search"] = inbound[r]["query"]

C8_Witness ==
    \E r \in Reqs :
        /\ searchCalls[r] = 1
        /\ inbound[r] = Body({"q1"}, {2}, {"category eq 'faq'"})
        /\ searchPost[r]["filter"] = "category eq 'faq'"
        /\ searchPost[r]["top"] = 2

(***************************************************************************)
(* C9                                                                      *)
(***************************************************************************)
SameInputs(r1, r2) ==
    /\ inbound[r1] = inbound[r2]
    /\ searchResp[r1] = searchResp[r2]
    /\ genResp[r1] = genResp[r2]

\* C9: under every interleaving of the requests at their two awaits (one after
\* the other included), two requests with the same body that were given the
\* same search response have sent the same search and generation bodies, and
\* two finished requests with the same body and the same two upstream
\* responses carry the same response: a response is a function of the
\* request's own body and its own two upstream responses.
C9_ResponseIsFunctionOfOwnInputs ==
    \A r1, r2 \in Reqs :
        /\ (pc[r1] # "idle" /\ pc[r2] # "idle" /\ inbound[r1] = inbound[r2]) =>
              searchPost[r1] = searchPost[r2]
        /\ (pc[r1] \in {"await_gen", "done"} /\ pc[r2] \in {"await_gen", "done"}
              /\ inbound[r1] = inbound[r2] /\ searchResp[r1] = searchResp[r2]) =>
              openaiPost[r1] = openaiPost[r2] /\ sources[r1] = sources[r2]
        /\ (pc[r1] = "done" /\ pc[r2] = "done" /\ SameInputs(r1, r2)) =>
              response[r1] = response[r2]

C9_Witness ==
    \E r1, r2 \in Reqs :
        /\ r1 # r2
        /\ Succeeded(r1) /\ Succeeded(r2)
        /\ SameInputs(r1, r2)
        /\ Len(response[r1].body["sources"]) = 2
        /\ response[r1] = response[r2]

(***************************************************************************)
(* C10                                                                     *)
(***************************************************************************)
\* C10: a request never has more than one POST to the search service nor more
\* than one to the generation service, whatever the calls came back with; a
\* POST to the generation service has only been issued after the search POST
\* came back with a 200 JSON response; and, every awaited POST returning or
\* timing out, a request that was accepted eventually ends.
C10_OneCallEachThenDone ==
    /\ [](\A r \in Reqs :
            /\ searchCalls[r] <= 1
            /\ genCalls[r] <= 1
            /\ genCalls[r] > 0 => searchCalls[r] = 1 /\ SearchSucceeded(searchResp[r])
            /\ pc[r] = "await_search" => searchCalls[r] = 1 /\ genCalls[r] = 0
            /\ pc[r] = "await_gen" => genCalls[r] = 1)
    /\ \A r \in Reqs : (pc[r] = "await_search") ~> (pc[r] = "done")

C10_Witness ==
    \E r \in Reqs :
        /\ pc[r] = "done"
        /\ searchCalls[r] = 1
        /\ genCalls[r] = 1
        /\ genResp[r].kind = "ReadTimeout"
        /\ response[r].status_code = HTTP_ERROR

====
